---- MODULE Spec2Model ----
(***************************************************************************)
(* Model of src/index.ts (mcp-obsidian-extended): the path sandbox         *)
(* (validatePath), the note search (searchNotes) and the read_notes /      *)
(* write_note / search_notes tool handlers, over an explicit POSIX file    *)
(* system with directories, regular files and symbolic links.              *)
(*                                                                         *)
(* A JavaScript string is a sequence of one-character strings; a few       *)
(* fixed message fragments are kept as single opaque elements.             *)
(***************************************************************************)
EXTENDS Integers, Sequences, FiniteSets, TLC

VARIABLES fs, resp

vars == <<fs, resp>>

(***************************************************************************)
(* Bounds of the model                                                     *)
(***************************************************************************)
\* longest read_notes batch
MaxBatch == 2
\* number of symbolic links one resolution may follow (ELOOP above it)
MaxLinkDepth == 2

\* src/index.ts:17
SEARCH_LIMIT == 200

FAIL == <<"<fail>">>

\* const x = e; followed by the code that uses x: e is evaluated once
Let(e, Body(_)) == CHOOSE r \in {Body(x) : x \in {e}} : TRUE

(***************************************************************************)
(* String primitives of JavaScript (String.prototype)                      *)
(***************************************************************************)
UpperToLower ==
  ("A" :> "a") @@ ("B" :> "b") @@ ("C" :> "c") @@ ("F" :> "f") @@
  ("O" :> "o") @@ ("V" :> "v") @@ ("X" :> "x")

LowerChar(c) == IF c \in DOMAIN UpperToLower THEN UpperToLower[c] ELSE c

toLowerCase(s) == [i \in 1..Len(s) |-> LowerChar(s[i])]

startsWith(s, pre) ==
  Len(pre) <= Len(s) /\ SubSeq(s, 1, Len(pre)) = pre

endsWith(s, suf) ==
  Len(suf) <= Len(s) /\ SubSeq(s, Len(s) - Len(suf) + 1, Len(s)) = suf

indexOf(s, sub) ==
  LET hits == {i \in 0..(Len(s) - Len(sub)) : SubSeq(s, i + 1, i + Len(sub)) = sub}
  IN  IF hits = {} THEN -1
      ELSE CHOOSE i \in hits : \A j \in hits : i <= j

includes(s, sub) == indexOf(s, sub) >= 0

\* s.replace(pat, rep) with a string pattern: first occurrence only
replaceFirst_identity(s, pat, rep) == s

replaceFirst(s, pat, rep) ==
  LET i == indexOf(s, pat)
  IN  IF i < 0 THEN s
      ELSE SubSeq(s, 1, i) \o rep \o SubSeq(s, i + Len(pat) + 1, Len(s))

RECURSIVE splitFrom(_, _, _)
splitFrom(s, sep, cur) ==
  IF s = <<>> THEN <<cur>>
  ELSE IF Head(s) = sep THEN <<cur>> \o splitFrom(Tail(s), sep, <<>>)
  ELSE splitFrom(Tail(s), sep, Append(cur, Head(s)))

\* s.split(sep) for a one-character separator
split(s, sep) == splitFrom(s, sep, <<>>)

IsSpace(c) == c \in {" ", "\t", "\n"}

RECURSIVE splitWsFrom(_, _, _)
splitWsFrom(s, cur, inSep) ==
  IF s = <<>> THEN <<cur>>
  ELSE IF IsSpace(Head(s))
       THEN IF inSep THEN splitWsFrom(Tail(s), cur, TRUE)
            ELSE <<cur>> \o splitWsFrom(Tail(s), <<>>, TRUE)
  ELSE splitWsFrom(Tail(s), Append(cur, Head(s)), FALSE)

\* s.split(/\s+/)
splitWhitespace(s) == splitWsFrom(s, <<>>, FALSE)

\* arr.filter(k => k.length > 0)
RECURSIVE filterNonEmpty(_)
filterNonEmpty(a) ==
  IF a = <<>> THEN <<>>
  ELSE IF Len(Head(a)) > 0 THEN <<Head(a)>> \o filterNonEmpty(Tail(a))
  ELSE filterNonEmpty(Tail(a))

RECURSIVE joinWith(_, _)
joinWith(parts, sep) ==
  IF parts = <<>> THEN <<>>
  ELSE IF Len(parts) = 1 THEN parts[1]
  ELSE parts[1] \o sep \o joinWith(Tail(parts), sep)

(***************************************************************************)
(* The path module of Node (POSIX flavour, path.sep = "/")                 *)
(***************************************************************************)
sep == "/"
DotDot == <<".", ".">>
Dot == <<".">>

RECURSIVE normParts(_, _, _)
normParts(parts, acc, allowAboveRoot) ==
  IF parts = <<>> THEN acc
  ELSE LET h == Head(parts) t == Tail(parts) IN
       IF h = <<>> \/ h = Dot THEN normParts(t, acc, allowAboveRoot)
       ELSE IF h = DotDot
            THEN IF acc # <<>> /\ acc[Len(acc)] # DotDot
                 THEN normParts(t, SubSeq(acc, 1, Len(acc) - 1), allowAboveRoot)
                 ELSE IF allowAboveRoot
                      THEN normParts(t, Append(acc, h), allowAboveRoot)
                      ELSE normParts(t, acc, allowAboveRoot)
       ELSE normParts(t, Append(acc, h), allowAboveRoot)

normalizeString(p, allowAboveRoot) ==
  joinWith(normParts(split(p, sep), <<>>, allowAboveRoot), <<sep>>)

isAbsolute(p) == Len(p) > 0 /\ p[1] = sep

pathNormalize(p) ==
  IF Len(p) = 0 THEN Dot
  ELSE LET abs == isAbsolute(p)
           trailing == p[Len(p)] = sep
       IN  Let(normalizeString(p, ~abs), LAMBDA np :
           IF Len(np) = 0
           THEN IF abs THEN <<sep>> ELSE IF trailing THEN <<".", sep>> ELSE Dot
           ELSE (IF abs THEN <<sep>> ELSE <<>>) \o np
                   \o (IF trailing THEN <<sep>> ELSE <<>>))

pathJoin(a, b) ==
  IF Len(a) = 0 /\ Len(b) = 0 THEN Dot
  ELSE IF Len(a) = 0 THEN pathNormalize(b)
  ELSE IF Len(b) = 0 THEN pathNormalize(a)
  ELSE pathNormalize(a \o <<sep>> \o b)

\* path.resolve(from, to) with an absolute `from`
pathResolve(from, to) ==
  LET joined == IF isAbsolute(to) THEN to
                ELSE IF Len(to) = 0 THEN from
                ELSE from \o <<sep>> \o to
      np == normalizeString(joined, FALSE)
  IN  <<sep>> \o np

pathDirname(p) ==
  IF Len(p) = 0 THEN Dot
  ELSE LET hasRoot == p[1] = sep
           cands == {i \in 2..Len(p) :
                       p[i] = sep /\ \E j \in (i + 1)..Len(p) : p[j] # sep}
       IN  IF cands = {} THEN (IF hasRoot THEN <<sep>> ELSE Dot)
           ELSE LET e == CHOOSE i \in cands : \A j \in cands : j <= i
                IN  IF hasRoot /\ e = 2 THEN <<sep, sep>>
                    ELSE SubSeq(p, 1, e - 1)

pathBasename(p) ==
  LET parts == filterNonEmpty(split(p, sep))
  IN  IF parts = <<>> THEN <<>> ELSE parts[Len(parts)]

(***************************************************************************)
(* The file system: a function from the real absolute path of every        *)
(* existing entry to its node.  A directory keeps the order in which       *)
(* readdir reports its entries.                                            *)
(***************************************************************************)
Dir(entries, listable) ==
  [kind |-> "dir", entries |-> entries, listable |-> listable,
   content |-> <<>>, target |-> <<>>]

File(content) ==
  [kind |-> "file", entries |-> <<>>, listable |-> TRUE,
   content |-> content, target |-> <<>>]

Link(target) ==
  [kind |-> "link", entries |-> <<>>, listable |-> TRUE,
   content |-> <<>>, target |-> target]

childPath(d, name) ==
  IF d = <<sep>> THEN d \o name ELSE d \o <<sep>> \o name

\* resolution of every component, following symbolic links (realpath(3))
RECURSIVE resolveFrom(_, _, _, _)
resolveFrom(f, cur, rest, fuel) ==
  IF rest = <<>> THEN cur
  ELSE LET h == Head(rest) t == Tail(rest) IN
       IF h = <<>> \/ h = Dot THEN resolveFrom(f, cur, t, fuel)
       ELSE IF f[cur].kind # "dir" THEN FAIL
       ELSE IF h = DotDot THEN resolveFrom(f, pathDirname(cur), t, fuel)
       ELSE Let(childPath(cur, h), LAMBDA next :
            IF next \notin DOMAIN f THEN FAIL
            ELSE IF f[next].kind = "link"
                 THEN IF fuel = 0 THEN FAIL
                      ELSE resolveFrom(f,
                             IF isAbsolute(f[next].target) THEN <<sep>> ELSE cur,
                             split(f[next].target, sep) \o t, fuel - 1)
            ELSE resolveFrom(f, next, t, fuel))

\* fs.realpath
realpath(f, p) == resolveFrom(f, <<sep>>, split(p, sep), MaxLinkDepth)

\* fs.access: the path resolves to an existing entry
access_always(f, p) == TRUE

access(f, p) == realpath(f, p) # FAIL

(***************************************************************************)
(* utf8 encoding of a string on write and decoding on read.  "HS" and "LS" *)
(* are a high and a low surrogate code unit; an unpaired surrogate is      *)
(* written as U+FFFD, a pair as one supplementary code point.              *)
(***************************************************************************)
RECURSIVE utf8Encode(_)
utf8Encode(s) ==
  IF s = <<>> THEN <<>>
  ELSE IF Head(s) = "HS" /\ Len(s) >= 2 /\ s[2] = "LS"
       THEN <<"U+10000">> \o utf8Encode(Tail(Tail(s)))
  ELSE IF Head(s) \in {"HS", "LS"}
       THEN <<"U+FFFD">> \o utf8Encode(Tail(s))
  ELSE <<Head(s)>> \o utf8Encode(Tail(s))

RECURSIVE utf8Decode(_)
utf8Decode(b) ==
  IF b = <<>> THEN <<>>
  ELSE IF Head(b) = "U+10000" THEN <<"HS", "LS">> \o utf8Decode(Tail(b))
  ELSE <<Head(b)>> \o utf8Decode(Tail(b))

\* fs.readFile(p, "utf-8"): follows links; loc is the location whose bytes are read
readFile(f, p) ==
  Let(realpath(f, p), LAMBDA rp :
  IF rp = FAIL
  THEN [ok |-> FALSE, data |-> <<>>, loc |-> FAIL, msg |-> <<"ENOENT: no such file or directory">>]
  ELSE IF f[rp].kind = "dir"
  THEN [ok |-> FALSE, data |-> <<>>, loc |-> FAIL, msg |-> <<"EISDIR: illegal operation on a directory">>]
  ELSE [ok |-> TRUE, data |-> utf8Decode(f[rp].content), loc |-> rp, msg |-> <<>>])

\* the location fs.writeFile(p) opens with O_CREAT|O_TRUNC: an existing file,
\* or a new entry of an existing directory (also through a dangling link)
RECURSIVE writeTarget(_, _, _)
writeTarget(f, p, fuel) ==
  Let(realpath(f, p), LAMBDA rp :
  IF rp # FAIL
  THEN IF f[rp].kind = "dir"
       THEN [ok |-> FALSE, loc |-> FAIL, msg |-> <<"EISDIR: illegal operation on a directory">>]
       ELSE [ok |-> TRUE, loc |-> rp, msg |-> <<>>]
  ELSE Let(realpath(f, pathDirname(p)), LAMBDA pr :
       IF pr = FAIL
       THEN [ok |-> FALSE, loc |-> FAIL, msg |-> <<"ENOENT: no such file or directory">>]
       ELSE IF f[pr].kind # "dir"
       THEN [ok |-> FALSE, loc |-> FAIL, msg |-> <<"ENOTDIR: not a directory">>]
       ELSE Let(childPath(pr, pathBasename(p)), LAMBDA q :
            IF q \in DOMAIN f
            THEN IF f[q].kind = "link" /\ fuel > 0
                 THEN writeTarget(f,
                        IF isAbsolute(f[q].target) THEN f[q].target
                        ELSE childPath(pr, f[q].target), fuel - 1)
                 ELSE [ok |-> FALSE, loc |-> FAIL, msg |-> <<"ELOOP: too many symbolic links">>]
            ELSE [ok |-> TRUE, loc |-> q, msg |-> <<>>])))

\* the file system with a new entry q added to its parent directory
addEntry(f, q, node) ==
  LET d == pathDirname(q) IN
  (q :> node) @@ [f EXCEPT ![d].entries = Append(@, pathBasename(q))]

\* fs.writeFile(p, data, "utf8"): the whole content is replaced
writeFile_append(f, p, data) ==
  Let(writeTarget(f, p, MaxLinkDepth), LAMBDA t :
  IF ~t.ok THEN [ok |-> FALSE, fs |-> f, loc |-> FAIL, msg |-> t.msg]
  ELSE IF t.loc \in DOMAIN f
  THEN [ok |-> TRUE, loc |-> t.loc, msg |-> <<>>,
        fs |-> [f EXCEPT ![t.loc].content = @ \o utf8Encode(data)]]
  ELSE [ok |-> TRUE, loc |-> t.loc, msg |-> <<>>,
        fs |-> addEntry(f, t.loc, File(utf8Encode(data)))])

writeFile(f, p, data) ==
  Let(writeTarget(f, p, MaxLinkDepth), LAMBDA t :
  IF ~t.ok THEN [ok |-> FALSE, fs |-> f, loc |-> FAIL, msg |-> t.msg]
  ELSE IF t.loc \in DOMAIN f
  THEN [ok |-> TRUE, loc |-> t.loc, msg |-> <<>>,
        fs |-> [f EXCEPT ![t.loc].content = utf8Encode(data)]]
  ELSE [ok |-> TRUE, loc |-> t.loc, msg |-> <<>>,
        fs |-> addEntry(f, t.loc, File(utf8Encode(data)))])

\* fs.mkdir(p, {recursive: true})
RECURSIVE mkdir(_, _)
mkdir(f, p) ==
  Let(realpath(f, p), LAMBDA rp :
  IF rp # FAIL
  THEN IF f[rp].kind = "dir" THEN [ok |-> TRUE, fs |-> f, msg |-> <<>>]
       ELSE [ok |-> FALSE, fs |-> f, msg |-> <<"EEXIST: file already exists">>]
  ELSE Let(mkdir(f, pathDirname(p)), LAMBDA r :
       IF ~r.ok THEN [ok |-> FALSE, fs |-> f, msg |-> r.msg]
       ELSE Let(childPath(realpath(r.fs, pathDirname(p)), pathBasename(p)), LAMBDA q :
            IF q \in DOMAIN r.fs
            THEN [ok |-> FALSE, fs |-> r.fs, msg |-> <<"EEXIST: file already exists">>]
            ELSE [ok |-> TRUE, msg |-> <<>>,
                  fs |-> addEntry(r.fs, q, Dir(<<>>, TRUE))])))

\* fs.readdir(p, {withFileTypes: true}): a Dirent reports the entry's own
\* type, so a link to a directory is not a directory
readdir(f, p) ==
  Let(realpath(f, p), LAMBDA rp :
  IF rp = FAIL THEN [ok |-> FALSE, entries |-> <<>>]
  ELSE IF f[rp].kind # "dir" \/ ~f[rp].listable THEN [ok |-> FALSE, entries |-> <<>>]
  ELSE [ok |-> TRUE,
        entries |-> [i \in 1..Len(f[rp].entries) |->
                       [name |-> f[rp].entries[i],
                        isDirectory |-> f[childPath(rp, f[rp].entries[i])].kind = "dir"]]])

(***************************************************************************)
(* Process environment and the allowed directory                           *)
(***************************************************************************)
\* os.homedir()
HomeDir == <<"/", "h">>
\* process.cwd()
Cwd == <<"/", "w">>
\* process.argv[2], the vault directory
Arg0 == <<"/", "v">>

normalizePath(p) == toLowerCase(pathNormalize(p))

expandHome(filepath) ==
  IF startsWith(filepath, <<"~", "/">>) \/ filepath = <<"~">>
  THEN pathJoin(HomeDir, SubSeq(filepath, 2, Len(filepath)))
  ELSE filepath

vaultDirectories == <<normalizePath(pathResolve(Cwd, expandHome(Arg0)))>>

\* vaultDirectories.some((dir) => n.startsWith(dir))
someDirPrefix(n) ==
  \E i \in 1..Len(vaultDirectories) : startsWith(n, vaultDirectories[i])

(***************************************************************************)
(* validatePath.  calls counts the fs.realpath calls made.                 *)
(***************************************************************************)
MsgHidden == <<"Access denied - hidden files/directories not allowed">>
MsgOutside == <<"Access denied - path outside allowed directories: ">>
MsgSymlink == <<"Access denied - symlink target outside allowed directories">>
MsgParentOutside == <<"Access denied - parent directory outside allowed directories">>
MsgParentMissing == <<"Parent directory does not exist: ">>

hasHiddenPart_last(parts) == startsWith(parts[Len(parts)], Dot)

\* pathParts.some((part) => part.startsWith("."))
hasHiddenPart(parts) == \E i \in 1..Len(parts) : startsWith(parts[i], Dot)

validatePath(f, requestedPath) ==
  Let(split(requestedPath, sep), LAMBDA pathParts :
  IF hasHiddenPart(pathParts)
  THEN [ok |-> FALSE, path |-> <<>>, msg |-> MsgHidden, calls |-> 0]
  ELSE
  Let(expandHome(requestedPath), LAMBDA expandedPath :
  Let(pathResolve(Cwd, expandedPath), LAMBDA absolute :
  Let(normalizePath(absolute), LAMBDA normalizedRequested :
  IF ~someDirPrefix(normalizedRequested)
  THEN [ok |-> FALSE, path |-> <<>>, calls |-> 0,
        msg |-> MsgOutside \o absolute \o <<" not in ">>
                  \o joinWith(vaultDirectories, <<", ">>)]
  ELSE
  Let(realpath(f, absolute), LAMBDA realPath :
  IF realPath # FAIL /\ someDirPrefix(normalizePath(realPath))
  THEN [ok |-> TRUE, path |-> realPath, msg |-> <<>>, calls |-> 1]
  ELSE
  \* the catch of lines 97-115 receives both a failed realpath and the
  \* "symlink target outside" error thrown inside the try block
  Let(pathDirname(absolute), LAMBDA parentDir :
  Let(realpath(f, parentDir), LAMBDA realParentPath :
  IF realParentPath # FAIL /\ someDirPrefix(normalizePath(realParentPath))
  THEN [ok |-> TRUE, path |-> absolute, msg |-> <<>>, calls |-> 2]
  \* the inner catch replaces every error, also "parent directory outside"
  ELSE [ok |-> FALSE, path |-> <<>>, calls |-> 2,
        msg |-> MsgParentMissing \o parentDir])))))))

IsAccessDenied(msg) ==
  msg # <<>> /\ <<msg[1]>> \in {MsgHidden, MsgOutside, MsgSymlink, MsgParentOutside}

IsParentMissing(msg) == msg # <<>> /\ <<msg[1]>> = MsgParentMissing

(***************************************************************************)
(* read_notes: the task of one path, lines 260-274                         *)
(***************************************************************************)
readEntry(f, filePath) ==
  LET normalizedPath == IF startsWith(filePath, <<sep>>)
                        THEN SubSeq(filePath, 2, Len(filePath)) ELSE filePath
  IN
  Let(pathJoin(vaultDirectories[1], normalizedPath), LAMBDA joined :
  Let(validatePath(f, joined), LAMBDA validPath :
  IF ~validPath.ok
  THEN [ok |-> FALSE, text |-> filePath \o <<": Error - ">> \o validPath.msg,
        touched |-> {}]
  ELSE Let(readFile(f, validPath.path), LAMBDA content :
       IF ~content.ok
       THEN [ok |-> FALSE, text |-> filePath \o <<": Error - ">> \o content.msg,
             touched |-> {}]
       ELSE [ok |-> TRUE, text |-> filePath \o <<":\n">> \o content.data \o <<"\n">>,
             touched |-> {content.loc}])))

PENDING == <<"<pending>">>

storeResult_push(results, i, text) ==
  LET free == {j \in 1..Len(results) : results[j] = PENDING}
      k == CHOOSE j \in free : \A m \in free : j <= m
  IN  [results EXCEPT ![k] = text]

\* Promise.all puts the value of the i-th promise at index i
storeResult(results, i, text) == [results EXCEPT ![i] = text]

(***************************************************************************)
(* write_note, lines 306-348 and the outer catch of lines 352-358          *)
(***************************************************************************)
MsgNotFound == <<"File does not exist: ">>

writeFailure(f, msg) ==
  [fs |-> f, isError |-> TRUE, touched |-> {},
   text |-> <<"Error: ", "Failed to write note: ">> \o msg]

writeNote(f, notePath, content, createIfNotExists) ==
  Let(pathJoin(vaultDirectories[1], notePath), LAMBDA fullPath :
  Let(validatePath(f, fullPath), LAMBDA validPath :
  IF ~validPath.ok THEN writeFailure(f, validPath.msg)
  ELSE
  Let(pathDirname(validPath.path), LAMBDA directory :
  Let(mkdir(f, directory), LAMBDA made :
  IF ~made.ok THEN writeFailure(made.fs, made.msg)
  ELSE
  Let(access(made.fs, validPath.path), LAMBDA fileExists :
  IF ~fileExists /\ ~createIfNotExists
  THEN writeFailure(made.fs, MsgNotFound \o notePath)
  ELSE
  Let(writeFile(made.fs, validPath.path, content), LAMBDA written :
  IF ~written.ok THEN writeFailure(made.fs, written.msg)
  ELSE [fs |-> written.fs, isError |-> FALSE, touched |-> {written.loc},
        text |-> <<"Successfully ", IF fileExists THEN "updated" ELSE "created",
                   " note: ">> \o notePath]))))))

(***************************************************************************)
(* searchNotes, lines 155-212                                              *)
(***************************************************************************)
\* query.replace(/[*]/g, ".*")
RECURSIVE replaceStars(_)
replaceStars(q) ==
  IF q = <<>> THEN <<>>
  ELSE IF Head(q) = "*" THEN <<".", "*">> \o replaceStars(Tail(q))
  ELSE <<Head(q)>> \o replaceStars(Tail(q))

\* new RegExp(pat, "i") throws on an unterminated character class
regexCompiles(pat) ==
  \A i \in 1..Len(pat) :
     pat[i] = "[" => \E j \in (i + 1)..Len(pat) : pat[j] = "]"

\* the pattern matches a prefix of s; patterns are made of literal
\* characters, "." (any character) and ".*" (any sequence)
RECURSIVE matchHere(_, _)
matchHere(pat, s) ==
  IF pat = <<>> THEN TRUE
  ELSE IF Len(pat) >= 2 /\ pat[1] = "." /\ pat[2] = "*"
       THEN \E k \in 0..Len(s) :
               matchHere(SubSeq(pat, 3, Len(pat)), SubSeq(s, k + 1, Len(s)))
  ELSE IF s = <<>> THEN FALSE
  ELSE IF pat[1] = "." \/ LowerChar(pat[1]) = LowerChar(s[1])
       THEN matchHere(Tail(pat), Tail(s))
  ELSE FALSE

\* new RegExp(pat, "i").test(s), FALSE when the constructor throws
regexTest(pat, s) ==
  regexCompiles(pat)
  /\ \E i \in 0..Len(s) : matchHere(pat, SubSeq(s, i + 1, Len(s)))

keywordsOf(query) == filterNonEmpty(splitWhitespace(toLowerCase(query)))

\* lines 173-192
nameMatches(name, query) ==
  LET filename == toLowerCase(name)
      keywords == keywordsOf(query)
  IN  \/ includes(filename, toLowerCase(query))
      \/ regexTest(replaceStars(query), name)
      \/ \E k \in 1..Len(keywords) : includes(filename, keywords[k])

DotMd == <<".", "m", "d">>

RECURSIVE search(_, _, _, _, _)
RECURSIVE searchLoop(_, _, _, _, _, _)

\* the body of the for loop for one entry; threw is an exception that
\* reaches the catch of line 203
searchEntry(f, basePath, currentPath, query, entry, acc) ==
  Let(pathJoin(currentPath, entry.name), LAMBDA fullPath :
  Let(validatePath(f, fullPath), LAMBDA validPath :
  IF ~validPath.ok THEN [threw |-> TRUE, results |-> acc]
  ELSE Let(IF endsWith(entry.name, DotMd) /\ nameMatches(entry.name, query)
           THEN Append(acc, replaceFirst(fullPath, basePath, <<>>))
           ELSE acc, LAMBDA pushed :
       IF entry.isDirectory
       THEN search(f, basePath, fullPath, query, pushed)
       ELSE [threw |-> FALSE, results |-> pushed])))

searchLoop_abort(f, basePath, currentPath, query, entries, acc) ==
  IF entries = <<>> THEN [threw |-> FALSE, results |-> acc]
  ELSE Let(searchEntry(f, basePath, currentPath, query, Head(entries), acc), LAMBDA e :
       IF e.threw THEN [threw |-> FALSE, results |-> e.results]
       ELSE searchLoop(f, basePath, currentPath, query, Tail(entries), e.results))

\* for (const entry of entries) { try { ... } catch { continue } }
searchLoop(f, basePath, currentPath, query, entries, acc) ==
  IF entries = <<>> THEN [threw |-> FALSE, results |-> acc]
  ELSE Let(searchEntry(f, basePath, currentPath, query, Head(entries), acc), LAMBDA e :
       searchLoop(f, basePath, currentPath, query, Tail(entries), e.results))

search(f, basePath, currentPath, query, acc) ==
  Let(readdir(f, currentPath), LAMBDA listing :
  IF ~listing.ok THEN [threw |-> TRUE, results |-> acc]
  ELSE searchLoop(f, basePath, currentPath, query, listing.entries, acc))

\* Promise.all over the single allowed directory
searchNotes(f, query) ==
  search(f, vaultDirectories[1], vaultDirectories[1], query, <<>>)

\* lines 280-304
searchText(results) ==
  LET limitedResults == SubSeq(results, 1,
                          IF Len(results) < SEARCH_LIMIT THEN Len(results) ELSE SEARCH_LIMIT)
  IN  (IF Len(limitedResults) > 0 THEN joinWith(limitedResults, <<"\n">>)
       ELSE <<"No matches found">>)
      \o (IF Len(results) > SEARCH_LIMIT
          THEN <<"\n\n... ", ToString(Len(results) - SEARCH_LIMIT), " more results not shown.">>
          ELSE <<>>)

(***************************************************************************)
(* Names, paths and arguments, spelled character by character              *)
(***************************************************************************)
\* "v"
N_v == <<"v">>
\* "o"
N_o == <<"o">>
\* "v-e"
N_ve == <<"v", "-", "e">>
\* "a.md"
N_amd == <<"a", ".", "m", "d">>
\* "s.md"
N_smd == <<"s", ".", "m", "d">>
\* "x.md"
N_xmd == <<"x", ".", "m", "d">>
\* "b.md"
N_bmd == <<"b", ".", "m", "d">>
\* "c.md"
N_cmd == <<"c", ".", "m", "d">>
\* "l.md"
N_lmd == <<"l", ".", "m", "d">>
\* "lo.md"
N_lomd == <<"l", "o", ".", "m", "d">>
\* "ld"
N_ld == <<"l", "d">>
\* ".h"
N_h == <<".", "h">>
\* "u"
N_u == <<"u">>
\* "sub"
N_sub == <<"s", "u", "b">>
\* "Foo.md"
N_Foo == <<"F", "o", "o", ".", "m", "d">>
\* "bar.md"
N_bar == <<"b", "a", "r", ".", "m", "d">>
\* ".hidden-foo.md"
N_hiddenfoo == <<".", "h", "i", "d", "d", "e", "n", "-", "f", "o", "o", ".", "m", "d">>
\* "abc.md"
N_abc == <<"a", "b", "c", ".", "m", "d">>
\* "axxxc.md"
N_axxxc == <<"a", "x", "x", "x", "c", ".", "m", "d">>
\* "ab.md"
N_ab == <<"a", "b", ".", "m", "d">>
\* "d.md"
N_dmd == <<"d", ".", "m", "d">>
\* "lk"
N_lk == <<"l", "k">>
\* "/v"
P_v == <<"/", "v">>
\* "/v/.h"
P_v_h == <<"/", "v", "/", ".", "h">>
\* "/v/.h/x.md"
P_v_h_x == <<"/", "v", "/", ".", "h", "/", "x", ".", "m", "d">>
\* "/v/u"
P_v_u == <<"/", "v", "/", "u">>
\* "/v/u/c.md"
P_v_u_c == <<"/", "v", "/", "u", "/", "c", ".", "m", "d">>
\* "/v/a.md"
P_v_a == <<"/", "v", "/", "a", ".", "m", "d">>
\* "/v/sub"
P_v_sub == <<"/", "v", "/", "s", "u", "b">>
\* "/v/sub/b.md"
P_v_sub_b == <<"/", "v", "/", "s", "u", "b", "/", "b", ".", "m", "d">>
\* "/v/l.md"
P_v_l == <<"/", "v", "/", "l", ".", "m", "d">>
\* "/v/lo.md"
P_v_lo == <<"/", "v", "/", "l", "o", ".", "m", "d">>
\* "/v/ld"
P_v_ld == <<"/", "v", "/", "l", "d">>
\* "/o"
P_o == <<"/", "o">>
\* "/o/s.md"
P_o_s == <<"/", "o", "/", "s", ".", "m", "d">>
\* "/v-e"
P_ve == <<"/", "v", "-", "e">>
\* "/v-e/s.md"
P_ve_s == <<"/", "v", "-", "e", "/", "s", ".", "m", "d">>
\* "/v/n.md"
P_v_n == <<"/", "v", "/", "n", ".", "m", "d">>
\* "a.md"
A_a == <<"a", ".", "m", "d">>
\* "/a.md"
A_slash_a == <<"/", "a", ".", "m", "d">>
\* "l.md"
A_l == <<"l", ".", "m", "d">>
\* "lo.md"
A_lo == <<"l", "o", ".", "m", "d">>
\* "../v-e/s.md"
A_up_ve_s == <<".", ".", "/", "v", "-", "e", "/", "s", ".", "m", "d">>
\* "../o/s.md"
A_up_o_s == <<".", ".", "/", "o", "/", "s", ".", "m", "d">>
\* "new/n.md"
A_new_n == <<"n", "e", "w", "/", "n", ".", "m", "d">>
\* "n.md"
A_n == <<"n", ".", "m", "d">>
\* ".h/x.md"
A_h_x == <<".", "h", "/", "x", ".", "m", "d">>
\* "ld/n.md"
A_ld_n == <<"l", "d", "/", "n", ".", "m", "d">>
\* "a.md/x"
A_a_x == <<"a", ".", "m", "d", "/", "x">>
\* "sub"
A_sub == <<"s", "u", "b">>
\* "/o/.s.md"
V_o_hidden == <<"/", "o", "/", ".", "s", ".", "m", "d">>
\* "/v/sub/.n.md"
V_sub_hidden == <<"/", "v", "/", "s", "u", "b", "/", ".", "n", ".", "m", "d">>
\* "/v/sub/../a.md"
V_sub_up_a == <<"/", "v", "/", "s", "u", "b", "/", ".", ".", "/", "a", ".", "m", "d">>
\* "/v/ld/.k"
V_ld_hidden == <<"/", "v", "/", "l", "d", "/", ".", "k">>
\* "foo"
Q_foo == <<"f", "o", "o">>
\* "a*c"
Q_a_star_c == <<"a", "*", "c">>
\* "a.c"
Q_a_dot_c == <<"a", ".", "c">>
\* "zz bar"
Q_zz_bar == <<"z", "z", " ", "b", "a", "r">>
\* "[ ab"
Q_bracket_ab == <<"[", " ", "a", "b">>
\* "md"
Q_md == <<"m", "d">>
NAMES_ROOT == <<N_v, N_o, N_ve>>
NAMES_V == <<N_h, N_u, N_amd, N_sub, N_lmd, N_lomd, N_ld>>

(***************************************************************************)
(* File systems the server starts on                                       *)
(***************************************************************************)
\* a vault with a hidden directory, an unlistable directory, a link to a
\* note of the vault, links that leave the vault, and next to the vault a
\* directory whose name starts with the vault's name
FSMain ==
  (<<"/">> :> Dir(NAMES_ROOT, TRUE))
  @@ (P_v :> Dir(NAMES_V, TRUE))
  @@ (P_v_h :> Dir(<<N_xmd>>, TRUE))
  @@ (P_v_h_x :> File(<<"h">>))
  @@ (P_v_u :> Dir(<<N_cmd>>, FALSE))
  @@ (P_v_u_c :> File(<<"c">>))
  @@ (P_v_a :> File(<<"i">>))
  @@ (P_v_sub :> Dir(<<N_bmd>>, TRUE))
  @@ (P_v_sub_b :> File(<<"b">>))
  @@ (P_v_l :> Link(P_v_a))
  @@ (P_v_lo :> Link(P_o_s))
  @@ (P_v_ld :> Link(P_o))
  @@ (P_o :> Dir(<<N_smd>>, TRUE))
  @@ (P_o_s :> File(<<"s">>))
  @@ (P_ve :> Dir(<<N_smd>>, TRUE))
  @@ (P_ve_s :> File(<<"e">>))

\* every order in which readdir may report the names of a set
Orders(S) ==
  {o \in [1..Cardinality(S) -> S] : \A i, j \in 1..Cardinality(S) : o[i] = o[j] => i = j}

FlatVault(entries) ==
  (<<"/">> :> Dir(<<N_v>>, TRUE))
  @@ (P_v :> Dir(entries, TRUE))
  @@ [q \in {childPath(P_v, entries[i]) : i \in 1..Len(entries)} |-> File(<<"t">>)]

FooNames == {N_Foo, N_bar, N_hiddenfoo}
AbcNames == {N_abc, N_axxxc, N_ab}
TreeNames == {N_h, N_u, N_dmd, N_lk, N_Foo}

\* a vault whose root has a hidden directory, an unlistable directory, a
\* directory named like a note, and a link to that directory
TreeVault(entries) ==
  (<<"/">> :> Dir(<<N_v>>, TRUE))
  @@ (P_v :> Dir(entries, TRUE))
  @@ (childPath(P_v, N_h) :> Dir(<<N_abc>>, TRUE))
  @@ (childPath(childPath(P_v, N_h), N_abc) :> File(<<"t">>))
  @@ (childPath(P_v, N_u) :> Dir(<<N_abc>>, FALSE))
  @@ (childPath(childPath(P_v, N_u), N_abc) :> File(<<"t">>))
  @@ (childPath(P_v, N_dmd) :> Dir(<<N_ab, N_u>>, TRUE))
  @@ (childPath(childPath(P_v, N_dmd), N_ab) :> File(<<"t">>))
  @@ (childPath(childPath(P_v, N_dmd), N_u) :> Dir(<<N_bar>>, FALSE))
  @@ (childPath(childPath(childPath(P_v, N_dmd), N_u), N_bar) :> File(<<"t">>))
  @@ (childPath(P_v, N_lk) :> Link(childPath(P_v, N_dmd)))
  @@ (childPath(P_v, N_Foo) :> File(<<"t">>))

SearchVaults ==
  {FlatVault(o) : o \in Orders(FooNames)}
  \cup {FlatVault(o) : o \in Orders(AbcNames)}
  \cup {TreeVault(o) : o \in Orders(TreeNames)}

(***************************************************************************)
(* Arguments of the requests                                               *)
(***************************************************************************)
NoteArgs ==
  {A_a, A_slash_a, A_l, A_lo, A_up_ve_s, A_up_o_s, A_new_n, A_n, A_h_x,
   A_ld_n, A_a_x, A_sub}

ReadArgs == {A_slash_a, A_lo, A_up_o_s}

Contents == {<<"x">>, <<"HS", "LS", "HS">>}

Queries == {Q_foo, Q_a_star_c, Q_a_dot_c, Q_zz_bar, Q_bracket_ab, Q_md, <<>>}

RECURSIVE SeqsUpTo(_, _)
SeqsUpTo(S, n) ==
  IF n = 0 THEN {<<>>}
  ELSE LET shorter == SeqsUpTo(S, n - 1)
       IN  shorter \cup {Append(q, x) : q \in shorter, x \in S}

ReadBatches == SeqsUpTo(ReadArgs, MaxBatch)

ValidateInputs ==
  {pathJoin(vaultDirectories[1], a) : a \in NoteArgs}
  \cup {A_a, <<"~">>, V_o_hidden, V_sub_hidden, V_sub_up_a, V_ld_hidden}

(***************************************************************************)
(* State: the file system and the request being served or last served      *)
(***************************************************************************)
NoValidation == [ok |-> FALSE, path |-> <<>>, msg |-> <<>>, calls |-> 0]

Idle ==
  [tool |-> "none", path |-> <<>>, content |-> <<>>, create |-> FALSE,
   query |-> <<>>, paths |-> <<>>, results |-> <<>>, pending |-> {},
   done |-> TRUE, isError |-> FALSE, text |-> <<>>, touched |-> {},
   v |-> NoValidation]

Init == fs = FSMain /\ resp = Idle

\* a call of validatePath on its own
ValidatePath(p) ==
  /\ resp.tool = "none"
  /\ resp' = [Idle EXCEPT !.tool = "validatePath", !.path = p,
                          !.v = validatePath(fs, p)]
  /\ UNCHANGED fs

\* read_notes: the map of line 260 creates one task per path
ReadNotesStart(paths) ==
  /\ resp.tool = "none"
  /\ resp' = [Idle EXCEPT !.tool = "read_notes", !.paths = paths,
                          !.results = [i \in 1..Len(paths) |-> PENDING],
                          !.pending = 1..Len(paths), !.done = FALSE]
  /\ UNCHANGED fs

\* the task of path i completes; the tasks complete in any order
ReadTask(i) ==
  /\ ~resp.done
  /\ i \in resp.pending
  /\ \E e \in {readEntry(fs, resp.paths[i])} :
     resp' = [resp EXCEPT !.results = storeResult(resp.results, i, e.text),
                          !.pending = @ \ {i},
                          !.touched = @ \cup e.touched]
  /\ UNCHANGED fs

\* Promise.all resolves and the response is built, lines 276-278
ReadNotesFinish ==
  /\ ~resp.done
  /\ resp.pending = {}
  /\ resp' = [resp EXCEPT !.done = TRUE, !.isError = FALSE,
                          !.text = joinWith(resp.results, <<"\n---\n">>)]
  /\ UNCHANGED fs

WriteNote(notePath, content, createIfNotExists) ==
  /\ resp.tool = "none"
  /\ \E r \in {writeNote(fs, notePath, content, createIfNotExists)} :
     /\ fs' = r.fs
     /\ resp' = [Idle EXCEPT !.tool = "write_note", !.path = notePath,
                             !.content = content, !.create = createIfNotExists,
                             !.isError = r.isError, !.text = r.text,
                             !.touched = r.touched]

SearchNotes(query) ==
  /\ resp.tool = "none"
  /\ \E r \in {searchNotes(fs, query)} :
     resp' = [Idle EXCEPT !.tool = "search_notes", !.query = query,
                          !.results = r.results, !.isError = r.threw,
                          !.text = IF r.threw
                                   THEN <<"Error: ", "EACCES: permission denied">>
                                   ELSE searchText(r.results)]
  /\ UNCHANGED fs

\* the response is handed to the transport; the next request is taken
Deliver ==
  /\ resp.tool # "none"
  /\ resp.done
  /\ resp' = Idle
  /\ UNCHANGED fs

Next ==
  \/ Deliver
  \/ \E p \in ValidateInputs : ValidatePath(p)
  \/ \E b \in ReadBatches : ReadNotesStart(b)
  \/ \E i \in 1..MaxBatch : ReadTask(i)
  \/ ReadNotesFinish
  \/ \E p \in NoteArgs, c \in Contents, k \in BOOLEAN : WriteNote(p, c, k)
  \/ \E q \in Queries : SearchNotes(q)

Spec == Init /\ [][Next]_vars

\* searches over the vaults of SearchVaults
InitSearch == fs \in SearchVaults /\ resp = Idle

NextSearch == Deliver \/ \E q \in Queries : SearchNotes(q)

SpecSearch == InitSearch /\ [][NextSearch]_vars

(***************************************************************************)
(* Vocabulary of the properties                                            *)
(***************************************************************************)
Root == vaultDirectories[1]

\* loc is the root or a descendant of it, by path segments
InRootTree(loc) == loc = Root \/ startsWith(loc, Root \o <<sep>>)

\* some segment of p begins with "."
HasDotSegment(p) ==
  \E i \in 1..Len(p) : p[i] = "." /\ (i = 1 \/ p[i - 1] = sep)

Range(q) == {q[i] : i \in 1..Len(q)}

NoDuplicates(q) == \A i, j \in 1..Len(q) : q[i] = q[j] => i = j

\* the absolute path a read_notes or write_note argument names
Named(arg) ==
  pathJoin(Root, IF startsWith(arg, <<sep>>) THEN SubSeq(arg, 2, Len(arg)) ELSE arg)

\* the location an argument names: where it resolves, else where it would be
NamedLocation(f, arg) ==
  IF realpath(f, Named(arg)) # FAIL THEN realpath(f, Named(arg)) ELSE Named(arg)

OkEntry(p, c) == p \o <<":\n">> \o c \o <<"\n">>

IsErrorEntry(p, text) == startsWith(text, p \o <<": Error - ">>)

\* the error text of a failed write_note names the NotFound condition
IsNotFound(text) == Len(text) >= 3 /\ <<text[3]>> = MsgNotFound

WriteStep == resp.tool = "none" /\ resp'.tool = "write_note"

(***************************************************************************)
(* C1 - Every file whose content read_notes or write_note reads or writes  *)
(* lies inside the directory tree of the root, and a request that names a  *)
(* location outside that tree is answered with an error.                   *)
(***************************************************************************)
C1_Contained ==
  /\ \A loc \in resp.touched : InRootTree(loc)
  /\ resp.tool = "read_notes" =>
       \A i \in (1..Len(resp.paths)) \ resp.pending :
          ~InRootTree(NamedLocation(fs, resp.paths[i]))
             => IsErrorEntry(resp.paths[i], resp.results[i])
  /\ (resp.tool = "write_note" /\ ~InRootTree(NamedLocation(fs, resp.path)))
       => resp.isError

(***************************************************************************)
(* C2 - validatePath of an existing symbolic link inside the root whose    *)
(* target resolves outside the root fails with AccessDenied.               *)
(***************************************************************************)
EscapingLink(f, p) ==
  /\ p \in DOMAIN f
  /\ f[p].kind = "link"
  /\ InRootTree(p)
  /\ realpath(f, p) # FAIL
  /\ ~InRootTree(realpath(f, p))

C2_SymlinkDenied ==
  (resp.tool = "validatePath" /\ EscapingLink(fs, resp.path))
     => (~resp.v.ok /\ IsAccessDenied(resp.v.msg))

(***************************************************************************)
(* C3 - validatePath of a path with a segment that begins with "." fails   *)
(* with AccessDenied, whether or not the path exists or is inside the      *)
(* root, and makes no realpath call.                                       *)
(***************************************************************************)
C3_HiddenRejected ==
  (resp.tool = "validatePath" /\ HasDotSegment(resp.path))
     => (~resp.v.ok /\ IsAccessDenied(resp.v.msg) /\ resp.v.calls = 0)

\* a hidden path that exists inside the root has been rejected
C3_Witness ==
  /\ resp.tool = "validatePath"
  /\ HasDotSegment(resp.path)
  /\ realpath(fs, resp.path) # FAIL
  /\ InRootTree(realpath(fs, resp.path))
  /\ ~resp.v.ok
  /\ resp.v.calls = 0

(***************************************************************************)
(* C4 - write_note with createIfNotExists=false on a path that does not    *)
(* exist fails with NotFound, error-flagged, and leaves the file system    *)
(* unchanged.                                                              *)
(***************************************************************************)
AbsentNoCreate ==
  /\ WriteStep
  /\ ~resp'.create
  /\ realpath(fs, pathJoin(Root, resp'.path)) = FAIL

C4_Original ==
  [][AbsentNoCreate => (resp'.isError /\ IsNotFound(resp'.text) /\ fs' = fs)]_vars

\* the path passes the checks made before the existence test
Admitted(f, full) ==
  \E par \in {realpath(f, pathDirname(full))} :
  /\ ~HasDotSegment(full)
  /\ startsWith(toLowerCase(full), Root)
  /\ par # FAIL
  /\ startsWith(toLowerCase(par), Root)
  /\ f[par].kind = "dir"

\* C4 as amended: the call is always an error and changes nothing; the error
\* is NotFound exactly when the path passes validation and its parent is a
\* directory, and the validation or mkdir error otherwise
C4_Amended ==
  [][AbsentNoCreate =>
       /\ resp'.isError
       /\ fs' = fs
       /\ IsNotFound(resp'.text) <=> Admitted(fs, pathJoin(Root, resp'.path))]_vars

C4_Witness ==
  /\ resp.tool = "write_note"
  /\ ~resp.create
  /\ resp.isError
  /\ IsNotFound(resp.text)
  /\ realpath(fs, pathJoin(Root, resp.path)) = FAIL

(***************************************************************************)
(* C5 - read_notes on n paths returns a non-error response of n entries,   *)
(* entry i being that of path i whatever the order in which the reads      *)
(* complete; a failed path gives "<path>: Error - <message>" in its place  *)
(* and leaves the other entries as they are.                               *)
(***************************************************************************)
C5_Positional ==
  resp.tool = "read_notes" =>
    /\ Len(resp.results) = Len(resp.paths)
    /\ \A i \in (1..Len(resp.paths)) \ resp.pending :
         /\ resp.results[i] = readEntry(fs, resp.paths[i]).text
         /\ \/ IsErrorEntry(resp.paths[i], resp.results[i])
            \/ startsWith(resp.results[i], resp.paths[i] \o <<":\n">>)
    /\ resp.done =>
         /\ ~resp.isError
         /\ resp.pending = {}
         /\ resp.text = joinWith(resp.results, <<"\n---\n">>)

\* a finished batch of two paths: the first refused, the second read
C5_Witness ==
  /\ resp.tool = "read_notes"
  /\ resp.done
  /\ Len(resp.paths) = 2
  /\ IsErrorEntry(resp.paths[1], resp.results[1])
  /\ ~IsErrorEntry(resp.paths[2], resp.results[2])
  /\ resp.paths[1] # resp.paths[2]

(***************************************************************************)
(* C6 - write_note with createIfNotExists=true on a path inside the root   *)
(* whose parent directory does not exist creates the missing directories,  *)
(* writes the note and reports "created".                                  *)
(***************************************************************************)
C6_CreatesParents ==
  [][(/\ WriteStep
      /\ resp'.create
      /\ ~HasDotSegment(pathJoin(Root, resp'.path))
      /\ InRootTree(pathJoin(Root, resp'.path))
      /\ realpath(fs, pathDirname(pathJoin(Root, resp'.path))) = FAIL)
     => (/\ ~resp'.isError
         /\ resp'.text = <<"Successfully ", "created", " note: ">> \o resp'.path
         /\ realpath(fs', pathDirname(pathJoin(Root, resp'.path))) # FAIL
         /\ readFile(fs', pathJoin(Root, resp'.path)).ok)]_vars

(***************************************************************************)
(* C7 - After any sequence of write_note calls, read_notes([p]) returns    *)
(* exactly the content of the last successful write_note(p, c): a          *)
(* successful write makes p read back as c, and failed writes and writes   *)
(* to other paths leave what p reads back unchanged.                       *)
(***************************************************************************)
C7_Original ==
  [][WriteStep =>
       \A p \in NoteArgs :
          IF ~resp'.isError /\ p = resp'.path
          THEN readEntry(fs', p).text = OkEntry(p, resp'.content)
          ELSE readEntry(fs', p).text = readEntry(fs, p).text]_vars

\* two arguments resolve to the same file
SameFile(f, p, q) ==
  realpath(f, Named(p)) # FAIL /\ realpath(f, Named(p)) = realpath(f, Named(q))

\* what a string reads back as after being written as utf8
ReadBack(c) == utf8Decode(utf8Encode(c))

\* C7 as amended: the written path, and every readable path that resolves to
\* the same file, reads back as the utf8 round trip of c; every other path
\* reads back as before
C7_Amended ==
  [][WriteStep =>
       \A p \in NoteArgs :
          IF ~resp'.isError /\ p = resp'.path
          THEN readEntry(fs', p).text = OkEntry(p, ReadBack(resp'.content))
          ELSE IF ~resp'.isError /\ SameFile(fs', p, resp'.path) /\ readEntry(fs', p).ok
          THEN readEntry(fs', p).text = OkEntry(p, ReadBack(resp'.content))
          ELSE readEntry(fs', p).text = readEntry(fs, p).text]_vars

\* a successful write through a link, read back under the note's own name
C7_Witness ==
  /\ resp.tool = "write_note"
  /\ ~resp.isError
  /\ resp.path = A_l
  /\ readEntry(fs, A_a).text = OkEntry(A_a, ReadBack(resp.content))
  /\ ReadBack(resp.content) # resp.content

(***************************************************************************)
(* C8 - searchNotes returns, each once and relative to the root, exactly   *)
(* the ".md" entries under the root that are not hidden, not beneath a     *)
(* hidden directory, and whose name contains the query, matches the query  *)
(* with "*" as any sequence, or contains a keyword of the query (all       *)
(* case-insensitive).                                                      *)
(***************************************************************************)
Entries(f) == {q \in DOMAIN f : startsWith(q, Root \o <<sep>>)}

RelOf(q) == SubSeq(q, Len(Root) + 1, Len(q))

\* every directory from the root down to q's parent can be listed
Listed(f, q) ==
  \A d \in DOMAIN f :
     (InRootTree(d) /\ startsWith(q, d \o <<sep>>)) => f[d].listable

Candidates(f) ==
  {q \in Entries(f) :
     endsWith(pathBasename(q), DotMd) /\ ~HasDotSegment(RelOf(q)) /\ Listed(f, q)}

\* the query with every "*" standing for any sequence, other characters literal
RECURSIVE globHere(_, _)
globHere(pat, s) ==
  IF pat = <<>> THEN TRUE
  ELSE IF pat[1] = "*"
       THEN \E k \in 0..Len(s) : globHere(Tail(pat), SubSeq(s, k + 1, Len(s)))
  ELSE IF s = <<>> THEN FALSE
  ELSE LowerChar(pat[1]) = LowerChar(s[1]) /\ globHere(Tail(pat), Tail(s))

GlobMatch(query, name) ==
  \E i \in 0..Len(name) : globHere(query, SubSeq(name, i + 1, Len(name)))

KeywordMatch(query, name) ==
  \E k \in Range(filterNonEmpty(splitWhitespace(query))) :
     includes(toLowerCase(name), toLowerCase(k))

SubstringMatch(query, name) == includes(toLowerCase(name), toLowerCase(query))

SearchExamples ==
  /\ (Range(fs[Root].entries) = FooNames /\ resp.query = Q_foo)
       => resp.results = <<<<sep>> \o N_Foo>>
  /\ (fs[Root].entries = <<N_abc, N_axxxc, N_ab>> /\ resp.query = Q_a_star_c)
       => resp.results = <<<<sep>> \o N_abc, <<sep>> \o N_axxxc>>

C8_Original ==
  resp.tool = "search_notes" =>
    /\ ~resp.isError
    /\ NoDuplicates(resp.results)
    /\ Range(resp.results) =
         {RelOf(q) : q \in {c \in Candidates(fs) :
              \/ SubstringMatch(resp.query, pathBasename(c))
              \/ GlobMatch(resp.query, pathBasename(c))
              \/ KeywordMatch(resp.query, pathBasename(c))}}
    /\ SearchExamples

\* C8 as amended: the second way to match is an unanchored, case-insensitive
\* regular-expression test of the query with every "*" replaced by ".*"
\* (a pattern that does not compile matches nothing)
C8_Amended ==
  resp.tool = "search_notes" =>
    /\ ~resp.isError
    /\ NoDuplicates(resp.results)
    /\ Range(resp.results) =
         {RelOf(q) : q \in {c \in Candidates(fs) :
              \/ SubstringMatch(resp.query, pathBasename(c))
              \/ regexTest(replaceStars(resp.query), pathBasename(c))
              \/ KeywordMatch(resp.query, pathBasename(c))}}
    /\ SearchExamples

C8_Witness ==
  /\ resp.tool = "search_notes"
  /\ fs[Root].entries = <<N_abc, N_axxxc, N_ab>>
  /\ resp.query = Q_a_star_c
  /\ resp.results = <<<<sep>> \o N_abc, <<sep>> \o N_axxxc>>

(***************************************************************************)
(* C9 - An entry that fails validation, or a subdirectory that cannot be   *)
(* listed, is skipped without aborting the search: every matching entry    *)
(* that is not skipped, in the same and in every other directory, is       *)
(* returned.                                                               *)
(***************************************************************************)
C9_SkipContinues ==
  resp.tool = "search_notes" =>
    /\ ~resp.isError
    /\ \A q \in Candidates(fs) :
         nameMatches(pathBasename(q), resp.query) => RelOf(q) \in Range(resp.results)

\* an unlistable directory and a hidden one come first, a match after them
C9_Witness ==
  /\ resp.tool = "search_notes"
  /\ Len(fs[Root].entries) = 5
  /\ fs[Root].entries[1] = N_u
  /\ fs[Root].entries[2] = N_h
  /\ fs[Root].entries[5] = N_Foo
  /\ (<<sep>> \o N_Foo) \in Range(resp.results)

(***************************************************************************)
(* C10 - For a path that does not exist, has no hidden segment and is      *)
(* textually inside the root, validatePath succeeds with the absolute path *)
(* when the parent's real location is inside the root, fails with          *)
(* AccessDenied when the parent exists with a real location outside, and   *)
(* fails with ParentMissing only when the parent does not exist.           *)
(***************************************************************************)
C10_ParentDecides ==
  (/\ resp.tool = "validatePath"
   /\ isAbsolute(resp.path)
   /\ ~HasDotSegment(resp.path)
   /\ InRootTree(pathResolve(Cwd, resp.path))
   /\ realpath(fs, resp.path) = FAIL)
  => \A absolute \in {pathResolve(Cwd, resp.path)} :
     \A par \in {realpath(fs, pathDirname(absolute))} :
         /\ (par # FAIL /\ InRootTree(par))
              => (resp.v.ok /\ resp.v.path = absolute)
         /\ (par # FAIL /\ ~InRootTree(par))
              => (~resp.v.ok /\ IsAccessDenied(resp.v.msg))
         /\ par = FAIL => (~resp.v.ok /\ IsParentMissing(resp.v.msg))
         /\ IsParentMissing(resp.v.msg) => par = FAIL

====
